---- MODULE Spec2Model ----
(***************************************************************************)
(* Model of sistema_empresas.py: the class GestorEmpresas (an in-memory    *)
(* list of Empresa records with CRUD by nit) and its export / import to a  *)
(* '|'-delimited text file through csv.writer / csv.reader.                *)
(*                                                                         *)
(* A text (str) is a sequence of one-character strings.  A float is a      *)
(* pair <<m, e>> standing for m * 10^(-e), normalised so that m is not a   *)
(* multiple of 10 unless e = 0 (1.5 is <<15, 1>>, 2.0 is <<2, 0>>).        *)
(***************************************************************************)
EXTENDS Integers, Sequences, FiniteSets, TLC

\* ------------------------------------------------------------------------
\* Characters and texts
\* ------------------------------------------------------------------------

\* delimiter="|" passed to csv.writer and csv.reader
DELIM == "|"

\* default quotechar of the csv dialect
QUOTE == "\""

LF == "\n"

CR == "\r"

\* pseudo character the reader processes at the end of every line
EOL == "EOL"

\* characters str.strip() removes (those of the modelled alphabet)
Blancos == {" ", "\t", LF, CR}

Digitos == <<"0", "1", "2", "3", "4", "5", "6", "7", "8", "9">>

EsDigito(c) == \E i \in 1..10 : Digitos[i] = c

ValorDigito(c) == (CHOOSE i \in 1..10 : Digitos[i] = c) - 1

RECURSIVE lstrip(_)
lstrip(s) ==
    IF s # <<>> /\ Head(s) \in Blancos THEN lstrip(Tail(s)) ELSE s

RECURSIVE rstrip(_)
rstrip(s) ==
    IF s # <<>> /\ s[Len(s)] \in Blancos
    THEN rstrip(SubSeq(s, 1, Len(s) - 1))
    ELSE s

\* campo.strip()
strip(s) == rstrip(lstrip(s))

\* ------------------------------------------------------------------------
\* float(text) and str(float)
\* ------------------------------------------------------------------------

RECURSIVE Pot10(_)
Pot10(n) == IF n = 0 THEN 1 ELSE 10 * Pot10(n - 1)

RECURSIVE Normal(_, _)
Normal(m, e) ==
    IF e > 0 /\ m % 10 = 0 THEN Normal(m \div 10, e - 1) ELSE <<m, e>>

RECURSIVE ValorDigitos(_, _)
ValorDigitos(s, acc) ==
    IF s = <<>> THEN acc
    ELSE ValorDigitos(Tail(s), 10 * acc + ValorDigito(Head(s)))

PosPunto(s) ==
    IF \E i \in 1..Len(s) : s[i] = "."
    THEN CHOOSE i \in 1..Len(s) : s[i] = "." /\ \A j \in 1..(i - 1) : s[j] # "."
    ELSE 0

\* float(presupuesto_txt): ok = FALSE stands for ValueError.  Covers the
\* unsigned decimal literals (digits with at most one point and at least
\* one digit); every other text over the modelled alphabet is rejected.
float(txt) ==
    LET s    == strip(txt)
        p    == PosPunto(s)
        ent  == IF p = 0 THEN s ELSE SubSeq(s, 1, p - 1)
        frac == IF p = 0 THEN <<>> ELSE SubSeq(s, p + 1, Len(s))
        bien == /\ \A i \in 1..Len(ent) : EsDigito(ent[i])
                /\ \A i \in 1..Len(frac) : EsDigito(frac[i])
                /\ Len(ent) + Len(frac) > 0
    IN  IF bien
        THEN [ok |-> TRUE,
              val |-> Normal(ValorDigitos(ent \o frac, 0), Len(frac))]
        ELSE [ok |-> FALSE, val |-> <<0, 0>>]

RECURSIVE DigitosDe(_)
DigitosDe(n) ==
    IF n < 10 THEN <<Digitos[n + 1]>>
    ELSE DigitosDe(n \div 10) \o <<Digitos[(n % 10) + 1]>>

RECURSIVE Relleno(_, _)
Relleno(s, n) == IF Len(s) >= n THEN s ELSE Relleno(<<"0">> \o s, n)

\* str(e.presupuesto_anual), what csv.writer writes for a float field
str_float(v) ==
    LET m == v[1]
        e == v[2]
    IN  IF e = 0 THEN DigitosDe(m) \o <<".", "0">>
        ELSE DigitosDe(m \div Pot10(e)) \o <<".">>
             \o Relleno(DigitosDe(m % Pot10(e)), e)

\* ------------------------------------------------------------------------
\* csv.writer(archivo, delimiter="|", lineterminator="\n")
\* ------------------------------------------------------------------------

\* QUOTE_MINIMAL: a field is quoted when it holds the delimiter, the quote
\* character or a line break
NecesitaComillas(campo) ==
    \E i \in 1..Len(campo) : campo[i] \in {DELIM, QUOTE, LF, CR}

RECURSIVE DoblarComillas(_)
DoblarComillas(campo) ==
    IF campo = <<>> THEN <<>>
    ELSE (IF Head(campo) = QUOTE THEN <<QUOTE, QUOTE>> ELSE <<Head(campo)>>)
         \o DoblarComillas(Tail(campo))

\* variant: the quote characters inside a quoted field are not doubled
EscribirCampo_sin_doblar(campo) ==
    IF NecesitaComillas(campo)
    THEN <<QUOTE>> \o campo \o <<QUOTE>>
    ELSE campo

EscribirCampo(campo) ==
    IF NecesitaComillas(campo)
    THEN <<QUOTE>> \o DoblarComillas(campo) \o <<QUOTE>>
    ELSE campo

\* escritor.writerow([nit, nombre_empresa, direccion, presupuesto_anual])
writerow(e) ==
    EscribirCampo(e.nit) \o <<DELIM>> \o EscribirCampo(e.nombre_empresa)
    \o <<DELIM>> \o EscribirCampo(e.direccion)
    \o <<DELIM>> \o EscribirCampo(str_float(e.presupuesto_anual)) \o <<LF>>

\* ------------------------------------------------------------------------
\* csv.reader(archivo, delimiter="|") on a file opened with newline=""
\* ------------------------------------------------------------------------

ParserInicial ==
    [state |-> "START_RECORD", field |-> <<>>, fields |-> <<>>, rows |-> <<>>]

SaveField(p) == [p EXCEPT !.fields = Append(p.fields, p.field), !.field = <<>>]

AddChar(p, c) == [p EXCEPT !.field = Append(p.field, c)]

FinDeLinea(c) == c \in {LF, CR, EOL}

TrasFin(c) == IF c = EOL THEN "START_RECORD" ELSE "EAT_CRNL"

StartField(p, c) ==
    IF FinDeLinea(c) THEN [SaveField(p) EXCEPT !.state = TrasFin(c)]
    ELSE IF c = QUOTE THEN [p EXCEPT !.state = "IN_QUOTED_FIELD"]
    ELSE IF c = DELIM THEN [SaveField(p) EXCEPT !.state = "START_FIELD"]
    ELSE [AddChar(p, c) EXCEPT !.state = "IN_FIELD"]

\* one step of the reader's state machine (no escapechar, doublequote,
\* skipinitialspace off, strict off)
parse_process_char(p, c) ==
    CASE p.state = "START_RECORD" ->
            IF c = EOL THEN p
            ELSE IF c \in {LF, CR} THEN [p EXCEPT !.state = "EAT_CRNL"]
            ELSE StartField(p, c)
      [] p.state = "START_FIELD" -> StartField(p, c)
      [] p.state = "IN_FIELD" ->
            IF FinDeLinea(c) THEN [SaveField(p) EXCEPT !.state = TrasFin(c)]
            ELSE IF c = DELIM THEN [SaveField(p) EXCEPT !.state = "START_FIELD"]
            ELSE AddChar(p, c)
      [] p.state = "IN_QUOTED_FIELD" ->
            IF c = EOL THEN p
            ELSE IF c = QUOTE THEN [p EXCEPT !.state = "QUOTE_IN_QUOTED_FIELD"]
            ELSE AddChar(p, c)
      [] p.state = "QUOTE_IN_QUOTED_FIELD" ->
            IF c = QUOTE THEN [AddChar(p, c) EXCEPT !.state = "IN_QUOTED_FIELD"]
            ELSE IF c = DELIM THEN [SaveField(p) EXCEPT !.state = "START_FIELD"]
            ELSE IF FinDeLinea(c) THEN [SaveField(p) EXCEPT !.state = TrasFin(c)]
            ELSE [AddChar(p, c) EXCEPT !.state = "IN_FIELD"]
      [] p.state = "EAT_CRNL" ->
            IF c = EOL THEN [p EXCEPT !.state = "START_RECORD"] ELSE p

\* the reader hands out the row once a line's end brings it back to
\* START_RECORD
EntregarFila(p) ==
    IF p.state = "START_RECORD"
    THEN [p EXCEPT !.rows = Append(p.rows, p.fields), !.fields = <<>>]
    ELSE p

\* a line of the file ends after "\n", after "\r\n" and after a lone "\r"
FinLineaEn(txt, i) ==
    \/ txt[i] = LF
    \/ txt[i] = CR /\ (i = Len(txt) \/ txt[i + 1] # LF)
    \/ i = Len(txt)

\* the lines the file object hands to the reader, terminators kept
LineasDe(txt) ==
    LET fines  == {i \in 1..Len(txt) : FinLineaEn(txt, i)}
        fin(j) == CHOOSE i \in fines : Cardinality({x \in fines : x <= i}) = j
    IN  [j \in 1..Cardinality(fines) |->
            SubSeq(txt, IF j = 1 THEN 1 ELSE fin(j - 1) + 1, fin(j))]

\* the characters of one line, from the i-th on
RECURSIVE LeerLinea(_, _, _)
LeerLinea(linea, i, p) ==
    IF i > Len(linea) THEN p
    ELSE LeerLinea(linea, i + 1, parse_process_char(p, linea[i]))

\* Reader_iternext over the lines from the j-th on; at the end of the file
\* a field left open is kept as the last row
RECURSIVE LeerLineas(_, _, _)
LeerLineas(lineas, j, p) ==
    IF j > Len(lineas)
    THEN IF p.state = "IN_QUOTED_FIELD" \/ p.field # <<>>
         THEN Append(p.rows, SaveField(p).fields)
         ELSE p.rows
    ELSE LeerLineas(lineas, j + 1,
            EntregarFila(parse_process_char(LeerLinea(lineas[j], 1, p), EOL)))

\* list(csv.reader(archivo, delimiter="|")): the rows of a file
lector(txt) == LeerLineas(LineasDe(txt), 1, ParserInicial)

\* ------------------------------------------------------------------------
\* Bounds and input domains
\* ------------------------------------------------------------------------

\* largest number of records the model lets the list hold
MaxEmpresas == 2

Nits == {<<"1">>, <<"2">>, <<>>}

\* Empresa(nit, nombre_empresa, direccion, presupuesto_anual)
Empresa(nit, nombre, direccion, presupuesto) ==
    [nit |-> nit, nombre_empresa |-> nombre, direccion |-> direccion,
     presupuesto_anual |-> presupuesto]

NombreA == <<"a">>

\* a name with a leading blank
NombreB == <<" ", "b">>

DireccionX == <<"x">>

\* an address holding the delimiter, the quote character and a line break
DireccionY == <<"y", "|", "\"", "\n", "z">>

\* 1.5
UnoYMedio == <<15, 1>>

\* 2.0
Dos == <<2, 0>>

\* the values given for (nombre, direccion, presupuesto): each field takes
\* two values and every pair of values of two fields occurs
Datos ==
    {<<NombreA, DireccionX, UnoYMedio>>, <<NombreB, DireccionX, Dos>>,
     <<NombreA, DireccionY, Dos>>, <<NombreB, DireccionY, UnoYMedio>>}

EmpresasEntrada == {Empresa(n, d[1], d[2], d[3]) : n \in Nits, d \in Datos}

\* path exportar_csv writes to
RutaSalida == "salida.txt"

\* files offered to importar_csv: text of each path that exists
ArchivosEntrada ==
    [dos_validas |->
        <<"1", "|", "a", "|", "x", "|", "1", ".", "5", "\n",
          "\n",
          "2", "|", "a", "|", "x", "|", "1", ".", "5", "\n">>,
     linea_espacios |->
        <<"1", "|", "a", "|", "x", "|", "1", ".", "5", "\n",
          " ", "\n",
          "2", "|", "a", "|", "x", "|", "1", ".", "5", "\n">>,
     mal_formadas |->
        <<"1", "|", "a", "|", "x", "\n",
          "1", "|", "a", "|", "x", "|", "a", "\n",
          " ", "|", "a", "|", "x", "|", "1", ".", "5", "\n",
          "2", "|", "a", "|", " ", "x", "|", " ", "1", ".", "5", "0", "\n">>,
     repetido |->
        <<"1", "|", "a", "|", "x", "|", "1", ".", "5", "\n",
          " ", "1", " ", "|", " ", "b", "|", "x", "|", "2", ".", "0">>,
     comillas |->
        <<"2", "|", "\"", "a", "\"", "|", "\"", "y", "|", "\"", "\"", "\n",
          "z", "\"", "|", "2", "\n",
          "\n",
          "\"", "\"", "\n">>]

RutasEntrada == DOMAIN ArchivosEntrada

\* origen is the list the text was written from
SinArchivo == [existe |-> FALSE, texto |-> <<>>, origen |-> <<>>]

\* ------------------------------------------------------------------------
\* State
\* ------------------------------------------------------------------------

VARIABLES
    empresas,   \* self.empresas of the GestorEmpresas in use
    salida,     \* the file at RutaSalida: [existe, texto, origen]
    ultima,     \* the last call: its arguments and what it returned
    antes,      \* self.empresas when the last call started
    fase        \* where the export / re-import scenario stands

vars == <<empresas, salida, ultima, antes, fase>>

SinEmpresa == Empresa(<<>>, <<>>, <<>>, <<0, 0>>)

\* the record of a call; refs are the positions of self.empresas whose
\* object the caller shares after the call (it passed the object in or got
\* it back), lista tells that the caller got the list object itself
Llamada(op) ==
    [op |-> op, empresa |-> SinEmpresa, ruta |-> "", ok |-> FALSE,
     error |-> FALSE, insertados |-> 0, omitidos |-> 0,
     filas |-> <<>>, traza |-> <<>>, refs |-> {}, lista |-> FALSE]

\* GestorEmpresas.__init__
Init ==
    /\ empresas = <<>>
    /\ salida = SinArchivo
    /\ ultima = Llamada("__init__")
    /\ antes = <<>>
    /\ fase = "construir"

\* ------------------------------------------------------------------------
\* GestorEmpresas: the list operations
\* ------------------------------------------------------------------------

\* position of the first record with that nit, 0 for None
buscar_por_nit(es, nit) ==
    IF \E i \in 1..Len(es) : es[i].nit = nit
    THEN CHOOSE i \in 1..Len(es) :
            es[i].nit = nit /\ \A j \in 1..(i - 1) : es[j].nit # nit
    ELSE 0

\* variant: the last element is dropped, whichever it is
remove_ultimo(es, empresa) == SubSeq(es, 1, Len(es) - 1)

\* self.empresas.remove(empresa): drops the first element equal to empresa
remove(es, empresa) ==
    LET i == CHOOSE k \in 1..Len(es) :
                es[k] = empresa /\ \A j \in 1..(k - 1) : es[j] # empresa
    IN  SubSeq(es, 1, i - 1) \o SubSeq(es, i + 1, Len(es))

\* variant: the list is not searched for the nit
adicionar_sin_buscar(es, empresa) == [es |-> Append(es, empresa), ok |-> TRUE]

\* variant: a record with a stored nit takes the place of the stored one
adicionar_reemplaza(es, empresa) ==
    LET i == buscar_por_nit(es, empresa.nit)
    IN  IF i # 0
        THEN [es |-> [es EXCEPT ![i] = empresa], ok |-> FALSE]
        ELSE [es |-> Append(es, empresa), ok |-> TRUE]

\* adicionar on the list es: the new list and the returned flag
adicionar_en(es, empresa) ==
    IF buscar_por_nit(es, empresa.nit) # 0
    THEN [es |-> es, ok |-> FALSE]
    ELSE [es |-> Append(es, empresa), ok |-> TRUE]

eliminar_en(es, nit) ==
    LET i == buscar_por_nit(es, nit)
    IN  IF i = 0 THEN [es |-> es, ok |-> FALSE]
        ELSE [es |-> remove(es, es[i]), ok |-> TRUE]

\* variant: direccion is not assigned
actualizar_sin_direccion(es, nit, nombre, direccion, presupuesto) ==
    LET i == buscar_por_nit(es, nit)
    IN  IF i = 0 THEN [es |-> es, ok |-> FALSE]
        ELSE [es |-> [es EXCEPT ![i].nombre_empresa = nombre,
                                ![i].presupuesto_anual = presupuesto],
              ok |-> TRUE]

actualizar_en(es, nit, nombre, direccion, presupuesto) ==
    LET i == buscar_por_nit(es, nit)
    IN  IF i = 0 THEN [es |-> es, ok |-> FALSE]
        ELSE [es |-> [es EXCEPT ![i].nombre_empresa = nombre,
                                ![i].direccion = direccion,
                                ![i].presupuesto_anual = presupuesto],
              ok |-> TRUE]

adicionar(empresa) ==
    LET r == adicionar_en(empresas, empresa)
    IN  /\ fase = "construir"
        /\ Len(r.es) <= MaxEmpresas
        /\ empresas' = r.es
        /\ antes' = empresas
        /\ ultima' = [Llamada("adicionar") EXCEPT
                        !.empresa = empresa, !.ok = r.ok,
                        !.refs = IF r.ok THEN {Len(r.es)} ELSE {}]
        /\ UNCHANGED <<salida, fase>>

eliminar(nit) ==
    LET r == eliminar_en(empresas, nit)
    IN  /\ fase = "construir"
        /\ empresas' = r.es
        /\ antes' = empresas
        /\ ultima' = [Llamada("eliminar") EXCEPT !.empresa.nit = nit, !.ok = r.ok]
        /\ UNCHANGED <<salida, fase>>

\* returns the stored object itself; ok tells it was not None
consultar(nit) ==
    LET i == buscar_por_nit(empresas, nit)
    IN  /\ fase = "construir"
        /\ antes' = empresas
        /\ ultima' = [Llamada("consultar") EXCEPT
                        !.empresa = IF i = 0 THEN [SinEmpresa EXCEPT !.nit = nit]
                                    ELSE empresas[i],
                        !.ok = (i # 0),
                        !.refs = IF i = 0 THEN {} ELSE {i}]
        /\ UNCHANGED <<empresas, salida, fase>>

actualizar(nit, nombre, direccion, presupuesto) ==
    LET r == actualizar_en(empresas, nit, nombre, direccion, presupuesto)
    IN  /\ fase = "construir"
        /\ empresas' = r.es
        /\ antes' = empresas
        /\ ultima' = [Llamada("actualizar") EXCEPT
                        !.empresa = Empresa(nit, nombre, direccion, presupuesto),
                        !.ok = r.ok]
        /\ UNCHANGED <<salida, fase>>

\* returns self.empresas, the list object itself
listar ==
    /\ fase = "construir"
    /\ antes' = empresas
    /\ ultima' = [Llamada("listar") EXCEPT
                    !.lista = TRUE, !.refs = 1..Len(empresas)]
    /\ UNCHANGED <<empresas, salida, fase>>

\* ------------------------------------------------------------------------
\* exportar_csv
\* ------------------------------------------------------------------------

RECURSIVE exportar_texto(_)
exportar_texto(es) ==
    IF es = <<>> THEN <<>> ELSE writerow(Head(es)) \o exportar_texto(Tail(es))

\* err: ruta.open(mode="w") raises OSError and nothing is written
exportar_csv(err) ==
    /\ fase = "construir"
    /\ antes' = empresas
    /\ ultima' = [Llamada("exportar_csv") EXCEPT !.ruta = RutaSalida, !.error = err]
    /\ IF err
       THEN UNCHANGED <<salida, fase>>
       ELSE /\ salida' = [existe |-> TRUE, texto |-> exportar_texto(empresas),
                          origen |-> empresas]
            /\ fase' = "exportado"
    /\ UNCHANGED empresas

\* a second GestorEmpresas() is constructed to read the exported file
nuevo ==
    /\ fase = "exportado"
    /\ empresas' = <<>>
    /\ antes' = <<>>
    /\ ultima' = Llamada("__init__")
    /\ fase' = "nuevo"
    /\ UNCHANGED salida

\* ------------------------------------------------------------------------
\* importar_csv
\* ------------------------------------------------------------------------

\* whether open(ruta) finds a file
Existe(ruta) == IF ruta = RutaSalida THEN salida.existe ELSE ruta \in RutasEntrada

\* the rows csv.reader yields for each of the input files
FilasEntrada == [r \in RutasEntrada |-> lector(ArchivosEntrada[r])]

\* the rows csv.reader yields for the file at ruta
Filas(ruta) ==
    IF ruta \in RutasEntrada THEN FilasEntrada[ruta]
    ELSE IF ruta = RutaSalida /\ salida.existe THEN lector(salida.texto)
    ELSE <<>>

\* what a row that passed the checks on its shape does
AdicionarFila(acc, fila) ==
    LET r == adicionar_en(acc.es,
                 Empresa(strip(fila[1]), strip(fila[2]), strip(fila[3]),
                         float(strip(fila[4])).val))
    IN  IF r.ok
        THEN [acc EXCEPT !.es = r.es, !.insertados = @ + 1]
        ELSE [acc EXCEPT !.omitidos = @ + 1]

\* variant: an empty row is counted as skipped
importar_fila_cuenta_vacias(acc, fila) ==
    IF Len(fila) # 4 THEN [acc EXCEPT !.omitidos = @ + 1]
    ELSE IF ~float(strip(fila[4])).ok THEN [acc EXCEPT !.omitidos = @ + 1]
    ELSE IF strip(fila[1]) = <<>> THEN [acc EXCEPT !.omitidos = @ + 1]
    ELSE AdicionarFila(acc, fila)

\* variant: the nit is not checked for being empty
importar_fila_nit_vacio(acc, fila) ==
    IF fila = <<>> THEN acc
    ELSE IF Len(fila) # 4 THEN [acc EXCEPT !.omitidos = @ + 1]
    ELSE IF ~float(strip(fila[4])).ok THEN [acc EXCEPT !.omitidos = @ + 1]
    ELSE AdicionarFila(acc, fila)

\* variant: a row is counted as inserted whatever adicionar returns
importar_fila_siempre_insertada(acc, fila) ==
    IF fila = <<>> THEN acc
    ELSE IF Len(fila) # 4 THEN [acc EXCEPT !.omitidos = @ + 1]
    ELSE IF ~float(strip(fila[4])).ok THEN [acc EXCEPT !.omitidos = @ + 1]
    ELSE IF strip(fila[1]) = <<>> THEN [acc EXCEPT !.omitidos = @ + 1]
    ELSE [AdicionarFila(acc, fila) EXCEPT
             !.insertados = acc.insertados + 1, !.omitidos = acc.omitidos]

\* the body of "for fila in lector": acc is [es, insertados, omitidos]
importar_fila(acc, fila) ==
    IF fila = <<>> THEN acc
    ELSE IF Len(fila) # 4 THEN [acc EXCEPT !.omitidos = @ + 1]
    ELSE IF ~float(strip(fila[4])).ok THEN [acc EXCEPT !.omitidos = @ + 1]
    ELSE IF strip(fila[1]) = <<>> THEN [acc EXCEPT !.omitidos = @ + 1]
    ELSE AdicionarFila(acc, fila)

\* the values of acc after each of the rows, in order
RECURSIVE importar_filas(_, _)
importar_filas(acc, filas) ==
    IF filas = <<>> THEN <<>>
    ELSE LET a == importar_fila(acc, Head(filas))
         IN  <<a>> \o importar_filas(a, Tail(filas))

\* k rows are read and handled; err: an OSError is raised then (by
\* ruta.open when k = 0, by a later read of the file otherwise) and leaves
\* the call without a return value
importar_csv(ruta, k, err) ==
    /\ fase \in {"construir", "nuevo"}
    /\ fase = "nuevo" => ruta = RutaSalida
    /\ ~Existe(ruta) => err
    /\ ~err => k = Len(Filas(ruta))
    /\ LET filas == Filas(ruta)
           acc0  == [es |-> empresas, insertados |-> 0, omitidos |-> 0]
           traza == importar_filas(acc0, SubSeq(filas, 1, k))
           fin   == IF k = 0 THEN acc0 ELSE traza[k]
       IN  /\ Len(fin.es) <= MaxEmpresas
           /\ empresas' = fin.es
           /\ ultima' = [Llamada("importar_csv") EXCEPT
                           !.ruta = ruta, !.error = err,
                           !.insertados = IF err THEN 0 ELSE fin.insertados,
                           !.omitidos = IF err THEN 0 ELSE fin.omitidos,
                           !.filas = filas, !.traza = traza]
    /\ antes' = empresas
    /\ fase' = IF fase = "nuevo" THEN "importado" ELSE fase
    /\ UNCHANGED salida

\* ------------------------------------------------------------------------
\* Specifications
\* ------------------------------------------------------------------------

\* the calls on one GestorEmpresas, files read from RutasEntrada
Next ==
    \/ \E e \in EmpresasEntrada : adicionar(e)
    \/ \E n \in Nits : eliminar(n)
    \/ \E n \in Nits : consultar(n)
    \/ \E e \in EmpresasEntrada :
          actualizar(e.nit, e.nombre_empresa, e.direccion, e.presupuesto_anual)
    \/ listar
    \/ \E r \in RutasEntrada \cup {RutaSalida} :
          \E k \in 0..Len(Filas(r)), err \in BOOLEAN : importar_csv(r, k, err)

Spec == Init /\ [][Next]_vars

\* the same calls, then exportar_csv, a new GestorEmpresas and importar_csv
\* of the exported file
NextIdaVuelta ==
    \/ \E e \in EmpresasEntrada : adicionar(e)
    \/ \E n \in Nits : eliminar(n)
    \/ \E n \in Nits : consultar(n)
    \/ \E e \in EmpresasEntrada :
          actualizar(e.nit, e.nombre_empresa, e.direccion, e.presupuesto_anual)
    \/ listar
    \/ \E r \in RutasEntrada \cup {RutaSalida} :
          \E k \in 0..Len(Filas(r)), err \in BOOLEAN : importar_csv(r, k, err)
    \/ \E err \in BOOLEAN : exportar_csv(err)
    \/ nuevo

SpecIdaVuelta == Init /\ [][NextIdaVuelta]_vars

\* ------------------------------------------------------------------------
\* Properties of the list operations
\* ------------------------------------------------------------------------

NitsUnicos(es) ==
    \A i, j \in 1..Len(es) : i # j => es[i].nit # es[j].nit

TieneNit(es, nit) == \E i \in 1..Len(es) : es[i].nit = nit

RECURSIVE SinNit(_, _)
SinNit(es, nit) ==
    IF es = <<>> THEN <<>>
    ELSE (IF Head(es).nit = nit THEN <<>> ELSE <<Head(es)>>)
         \o SinNit(Tail(es), nit)

\* C1: in every state reached by adicionar, eliminar, actualizar and
\* importar_csv calls, no two records of the list have the same nit.
C1_NitUnico == NitsUnicos(empresas)

\* a full list on which the last call was refused for its nit
C1_Testigo ==
    /\ Len(empresas) = MaxEmpresas
    /\ \/ ultima.op = "adicionar" /\ ~ultima.ok
       \/ ultima.op = "importar_csv" /\ ultima.omitidos > 0
                                     /\ ultima.insertados > 0

\* C3 (as claimed): after adicionar, consultar, listar and importar_csv the
\* caller shares no record object and not the list object with the store.
C3_SinReferencias ==
    ultima.op \in {"adicionar", "consultar", "listar", "importar_csv"}
        => ultima.refs = {} /\ ~ultima.lista

\* C4 (as claimed): when importar_csv ends with an I/O error, wherever it is
\* raised, the list is what it was before the call.
C4_ImportarTodoONada ==
    (ultima.op = "importar_csv" /\ ultima.error) => empresas = antes

\* C5: adicionar of a record whose nit is not stored returns True, appends
\* the record as the last element, leaves the earlier elements alone and
\* makes a lookup of the nit return a record equal to the input in all four
\* fields; with the nit stored it returns False and the list is unchanged.
C5_Adicionar ==
    ultima.op = "adicionar" =>
        LET e == ultima.empresa
        IN  IF ~TieneNit(antes, e.nit)
            THEN /\ ultima.ok
                 /\ Len(empresas) = Len(antes) + 1
                 /\ empresas[Len(empresas)] = e
                 /\ SubSeq(empresas, 1, Len(antes)) = antes
                 /\ buscar_por_nit(empresas, e.nit) # 0
                 /\ empresas[buscar_por_nit(empresas, e.nit)] = e
            ELSE /\ ~ultima.ok
                 /\ empresas = antes

\* an accepted record appended behind another one
C5_Testigo ==
    /\ ultima.op = "adicionar"
    /\ ultima.ok
    /\ Len(empresas) = 2
    /\ empresas[2] = ultima.empresa

C7_Actualizar ==
    ultima.op = "actualizar" =>
        LET a == ultima.empresa
        IN  IF ~TieneNit(antes, a.nit)
            THEN ~ultima.ok /\ empresas = antes
            ELSE /\ ultima.ok
                 /\ Len(empresas) = Len(antes)
                 /\ \E i \in 1..Len(antes) :
                       /\ antes[i].nit = a.nit
                       /\ empresas[i] = a
                       /\ \A j \in 1..Len(antes) :
                             j # i => empresas[j] = antes[j]

\* the second of two records got a new direccion and a new presupuesto
C7_Testigo ==
    /\ ultima.op = "actualizar"
    /\ ultima.ok
    /\ Len(antes) = 2
    /\ antes[2].nit = ultima.empresa.nit
    /\ antes[2].direccion # ultima.empresa.direccion
    /\ antes[2].presupuesto_anual # ultima.empresa.presupuesto_anual
    /\ empresas[2] = ultima.empresa

\* ------------------------------------------------------------------------
\* Properties of importar_csv
\* ------------------------------------------------------------------------

\* acc before the k-th row of the last importar_csv
Previo(k) ==
    IF k = 1 THEN [es |-> antes, insertados |-> 0, omitidos |-> 0]
    ELSE ultima.traza[k - 1]

Omitida(k) ==
    ultima.traza[k] = [Previo(k) EXCEPT !.omitidos = @ + 1]

\* the text of an input file without its line terminators, line by line
LineasSinFin(txt) ==
    LET ls == LineasDe(txt)
    IN  [j \in 1..Len(ls) |->
            IF ls[j][Len(ls[j])] = LF THEN SubSeq(ls[j], 1, Len(ls[j]) - 1)
            ELSE ls[j]]

\* files in which every line is one row: no quote character
SinComillas(ruta) ==
    /\ ruta \in RutasEntrada
    /\ \A i \in 1..Len(ArchivosEntrada[ruta]) : ArchivosEntrada[ruta][i] # QUOTE

\* C8 (as claimed): a line that is empty or holds only whitespace is counted
\* neither as inserted nor as skipped and leaves the list unchanged.
C8_LineaEnBlanco ==
    (ultima.op = "importar_csv" /\ SinComillas(ultima.ruta)) =>
        \A k \in 1..Len(ultima.traza) :
            strip(LineasSinFin(ArchivosEntrada[ultima.ruta])[k]) = <<>>
                => ultima.traza[k] = Previo(k)

\* C8 (amended): an empty line is counted neither as inserted nor as
\* skipped and leaves the list unchanged, a line of whitespace only is
\* counted as skipped; a file with one empty line between two well-formed
\* records with distinct keys not in the list returns (2, 0).
C8_LineaVacia ==
    (ultima.op = "importar_csv" /\ SinComillas(ultima.ruta)) =>
        /\ \A k \in 1..Len(ultima.traza) :
              LET linea == LineasSinFin(ArchivosEntrada[ultima.ruta])[k]
              IN  /\ linea = <<>> => ultima.traza[k] = Previo(k)
                  /\ (linea # <<>> /\ strip(linea) = <<>>) => Omitida(k)
        /\ ( /\ ultima.ruta = "dos_validas"
             /\ ~ultima.error
             /\ ~TieneNit(antes, <<"1">>)
             /\ ~TieneNit(antes, <<"2">>) )
           => ultima.insertados = 2 /\ ultima.omitidos = 0

\* the file with the empty line went in whole
C8_Testigo ==
    /\ ultima.op = "importar_csv"
    /\ ultima.ruta = "dos_validas"
    /\ ~ultima.error
    /\ LineasSinFin(ArchivosEntrada["dos_validas"])[2] = <<>>
    /\ ultima.insertados = 2
    /\ ultima.omitidos = 0
    /\ Len(empresas) = Len(antes) + 2

\* the fields of a line without quote characters: the text between the
\* delimiters
Campos(linea) ==
    LET cortes  == {i \in 1..Len(linea) : linea[i] = DELIM}
        corte(j) == IF j = 0 THEN 0
                    ELSE IF j > Cardinality(cortes) THEN Len(linea) + 1
                    ELSE CHOOSE i \in cortes :
                            Cardinality({x \in cortes : x <= i}) = j
    IN  [j \in 1..(Cardinality(cortes) + 1) |->
            SubSeq(linea, corte(j - 1) + 1, corte(j) - 1)]

\* a row importar_csv has to skip for its shape
MalFormada(fila) ==
    \/ Len(fila) # 4
    \/ ~float(fila[4]).ok
    \/ strip(fila[1]) = <<>>

\* C9: every row that is not blank and has a number of fields other than 4,
\* a fourth field that is not numeric or a first field that is empty once
\* trimmed adds exactly one to the skipped counter, leaves the inserted
\* counter and the list alone, and the rows after it are still handled; in
\* a file without quote characters the rows are the non-empty lines split
\* at the delimiter.
C9_FilaMalFormada ==
    ultima.op = "importar_csv" =>
        /\ \A k \in 1..Len(ultima.traza) :
              (ultima.filas[k] # <<>> /\ MalFormada(ultima.filas[k]))
                  => Omitida(k)
        /\ ~ultima.error => Len(ultima.traza) = Len(ultima.filas)
        /\ SinComillas(ultima.ruta) =>
              LET lineas == LineasSinFin(ArchivosEntrada[ultima.ruta])
              IN  /\ Len(ultima.filas) = Len(lineas)
                  /\ \A k \in 1..Len(lineas) :
                        lineas[k] # <<>> => ultima.filas[k] = Campos(lineas[k])

\* three rows skipped for their shape and the row after them inserted
C9_Testigo ==
    /\ ultima.op = "importar_csv"
    /\ ultima.ruta = "mal_formadas"
    /\ ~ultima.error
    /\ \A k \in 1..3 : MalFormada(ultima.filas[k])
    /\ ultima.omitidos = 3
    /\ ultima.insertados = 1
    /\ Len(empresas) = Len(antes) + 1

\* C10: a well-formed row whose trimmed nit is the nit of a record of the
\* list, one inserted by an earlier row of the same call included, is
\* counted as skipped and leaves that record alone; every other well-formed
\* row is counted as inserted and appended; two well-formed lines with the
\* same key, the key not in the list, give one insertion with the first
\* line's values and one skip.
C10_NitRepetido ==
    ultima.op = "importar_csv" =>
        /\ \A k \in 1..Len(ultima.traza) :
              LET fila == ultima.filas[k]
                  prev == Previo(k)
              IN  (fila # <<>> /\ ~MalFormada(fila)) =>
                      LET e == Empresa(strip(fila[1]), strip(fila[2]),
                                       strip(fila[3]), float(fila[4]).val)
                      IN  IF TieneNit(prev.es, e.nit)
                          THEN Omitida(k)
                          ELSE ultima.traza[k] =
                                  [prev EXCEPT !.es = Append(@, e),
                                               !.insertados = @ + 1]
        /\ ( /\ ultima.ruta = "repetido"
             /\ ~ultima.error
             /\ ~TieneNit(antes, <<"1">>) )
           => /\ ultima.insertados = 1
              /\ ultima.omitidos = 1
              /\ empresas = Append(antes,
                               Empresa(<<"1">>, NombreA, DireccionX, UnoYMedio))

\* the second line of the file was skipped for the key the first one added
C10_Testigo ==
    /\ ultima.op = "importar_csv"
    /\ ultima.ruta = "repetido"
    /\ ~ultima.error
    /\ ~TieneNit(antes, <<"1">>)
    /\ Len(antes) = 1
    /\ ultima.insertados = 1
    /\ ultima.omitidos = 1

\* ------------------------------------------------------------------------
\* Export followed by import into a new GestorEmpresas
\* ------------------------------------------------------------------------

\* the same records, whatever their order
MismosRegistros(es, fs) ==
    {es[i] : i \in 1..Len(es)} = {fs[i] : i \in 1..Len(fs)}

IdaYVuelta ==
    /\ MismosRegistros(empresas, salida.origen)
    /\ Len(empresas) = Len(salida.origen)
    /\ ultima.insertados = Len(salida.origen)
    /\ ultima.omitidos = 0

Importado ==
    /\ fase = "importado"
    /\ ultima.op = "importar_csv"
    /\ ~ultima.error
    /\ NitsUnicos(salida.origen)

\* C2 (as claimed): exporting a list without repeated keys and importing
\* the file into a new, empty GestorEmpresas gives the same records and
\* returns (number of records, 0).
C2_IdaYVuelta == Importado => IdaYVuelta

\* the texts strip() leaves as they are
Recortado(txt) == strip(txt) = txt

\* C2 (amended): the same, for lists in which every nit is not empty and
\* every nit, nombre_empresa and direccion has no leading or trailing
\* whitespace.
C2_IdaYVueltaRecortada ==
    ( /\ Importado
      /\ \A i \in 1..Len(salida.origen) :
            /\ salida.origen[i].nit # <<>>
            /\ Recortado(salida.origen[i].nit)
            /\ Recortado(salida.origen[i].nombre_empresa)
            /\ Recortado(salida.origen[i].direccion) )
    => IdaYVuelta

\* two records came back, one of them with a quoted address of two lines
C2_Testigo ==
    /\ Importado
    /\ Len(salida.origen) = 2
    /\ salida.origen[2].direccion = DireccionY
    /\ empresas = salida.origen

====
